---- MODULE Spec2Model ----
(***************************************************************************)
(* pyvogon: a DB-API cursor over the Vogon asynchronous SQL service.       *)
(*                                                                         *)
(* The model covers src/vogon/base.py: the orchestration execute_sync      *)
(* (validate, submit, poll loop with countdown and cancel, results or      *)
(* diagnostic error message) and the Connection / Cursor objects that call *)
(* it.  The remote service is the environment: every request either fails  *)
(* (raises) or answers with a value drawn from a small set.                *)
(*                                                                         *)
(* SpecSync drives execute_sync directly with arguments drawn from small   *)
(* sets; Spec drives it through Connection and Cursor with the defaults.   *)
(***************************************************************************)
EXTENDS Integers, Sequences, FiniteSets, TLC

\* ------------------------------------------------------------------ bounds
\* Largest query_timeout_min a direct caller of execute_sync passes.
MaxTimeoutMin == 100
\* Largest poll_interval_sec a direct caller of execute_sync passes.
MaxPollIntervalSec == 60
\* Number of cursors a connection hands out before the model stops creating.
MaxCursors == 2
\* Longest string and longest list handed to escape.
MaxStrLen == 2
\* Largest size handed to fetchmany.
MaxFetchSize == 2
MaxSeqLen == 2

\* ------------------------------------------------- constants of the program
MinQueryTimeoutMin == 2
MinPollIntervalSec == 45
DefaultPollIntervalSec == 60
DefaultQueryTimeoutMin == 1440
DefaultTotalResultRows == 100
ArraySize == 1
TypeSTRING == 1
TypeNUMBER == 2
TypeBOOLEAN == 3

\* ------------------------------------------------------------ option values
\* Python's None and a present value, as sequences of length 0 and 1.
None == <<>>
Some(x) == <<x>>
IsNone(o) == o = <<>>
Get(o) == o[1]

\* --------------------------------------------------------- service statuses
\* The statuses on which the poll loop keeps going.
NonTerminal == {"RUNNING", "QUEUED", "UNKNOWN", "SUBMITTED"}

\* What the status field of a response can hold: progress() returns any string.
StatusValues == NonTerminal \cup {"SUCCEEDED", "FAILED", "TIMEOUT", "CANCELLED", "BOGUS"}

\* A request that raised (connection error, HTTP error status, bad JSON, missing key).
Fail == "fail"

SubmitResponses == StatusValues \cup {Fail}

\* Answers to a poll: any status or a failure for a direct call (c = 0); the calls
\* made through a cursor run up to 25 passes, and meet a service that answers every
\* poll with one of three statuses.
PollResponses(c) ==
    IF c = 0 THEN StatusValues \cup {Fail} ELSE {"RUNNING", "SUCCEEDED", "FAILED"}
AckResponses == {"ok", Fail}

\* ------------------------------------------------------------- result values
\* A scalar of a result row, tagged with its Python type.
Val(t, r) == [type |-> t, repr |-> r]

RowsXY == << <<Val("str", "x"), Val("int", "1")>>, <<Val("str", "y"), Val("int", "2")>> >>
RowsMixed == << <<Val("none", "None"), Val("bool", "True"), Val("float", "1.5")>> >>

\* Decoded JSON bodies of the results endpoint: with a "rows" key, or without.
Body(has, rs) == [hasRows |-> has, rows |-> rs]
Bodies == {Body(TRUE, <<>>), Body(TRUE, RowsXY), Body(TRUE, RowsMixed), Body(FALSE, <<>>)}

\* Bodies answered to a call: all of them for a direct call (c = 0); the calls made
\* through a cursor meet the bodies without the one-row result set.
ResultBodies(c) == IF c = 0 THEN Bodies ELSE Bodies \ {Body(TRUE, RowsMixed)}

\* get_type: the type code inferred from a value; 0 stands for the raised Error.
get_type(value) ==
    IF value.type \in {"str", "none"} THEN TypeSTRING
    ELSE IF value.type = "bool" THEN TypeBOOLEAN
    ELSE IF value.type \in {"int", "float"} THEN TypeNUMBER
    ELSE 0

\* ---------------------------------------------------------------- arguments
PollChoices == {MinPollIntervalSec - 1, MinPollIntervalSec, MaxPollIntervalSec}
TimeoutChoices == {MinQueryTimeoutMin - 1, MinQueryTimeoutMin, MinPollIntervalSec, MaxTimeoutMin}
TotalChoices == {1, DefaultTotalResultRows}

Args(poll, tmo, total, re) ==
    [poll_interval_sec |-> poll, query_timeout_min |-> tmo,
     total_result_rows |-> total, raise_error |-> re]

\* The keyword defaults of execute_sync, used by Cursor._stream_query.
DefaultArgs ==
    Args(DefaultPollIntervalSec, DefaultQueryTimeoutMin, DefaultTotalResultRows, TRUE)

\* ----------------------------------------------------------------- outcomes
Pending == [kind |-> "pending", err |-> "", value |-> None]
Returned(v) == [kind |-> "returned", err |-> "", value |-> v]
Raised(e) == [kind |-> "raised", err |-> e, value |-> None]

ErrTimeoutArg == "ValueError: query_timeout_min cannot be less than 2 minutes"
ErrPollArg == "ValueError: poll_interval_sec cannot be less than 45 seconds"
ErrSubmitRequest == "submit request raised"
ErrNotSubmitted == "ValueError: query is not submitted successfully"
ErrCancelRequest == "cancel request raised"
ErrResultsRequest == "results request raised"
ErrJobFailed == "ValueError: vogon job failed to succeed"
ErrRowsKey == "KeyError: rows"
ErrNoneResponse == "TypeError: NoneType is not subscriptable"
ErrClosed == "Error: already closed"
ErrNotExecuted == "Error: Called before execute"
ErrNotSupported == "NotSupportedError: executemany is not supported"
ErrNotIterator == "TypeError: 'NoneType' object is not an iterator"
ErrStopIteration == "StopIteration"
ErrIslice == "ValueError: Stop argument for islice() must be None or an integer >= 0"

VARIABLES
    conn_closed,      \* Connection.closed
    cursors,          \* Connection.cursors: the Cursor objects, in creation order
    op,               \* the API operation in progress or last finished, and how it ended
    pc,               \* position inside execute_sync; "idle" when no call is running
    caller,           \* 0: execute_sync called directly; i: called by cursor i
    args,             \* arguments of the execute_sync call
    timeout,          \* local: remaining budget
    to_print_status,  \* local: print toggle
    current_status,   \* local: last status taken over from a poll
    calls,            \* requests and sleeps of the current call, in order
    obs,              \* what the service answered in the current call
    printed,          \* iterations of the current call that printed the progress line
    outcome,          \* how the execute_sync call ended
    value,            \* the argument of escape
    escaped           \* what escape returned or raised; NotCalled before the call

conn == <<conn_closed, cursors>>
locals == <<timeout, to_print_status, current_status>>
esc == <<value, escaped>>
vars == <<conn_closed, cursors, op, pc, caller, args, timeout, to_print_status,
          current_status, calls, obs, printed, outcome, value, escaped>>

\* ------------------------------------------------------------------ helpers
Count(s, x) == Cardinality({i \in DOMAIN s : s[i] = x})
Last(s) == s[Len(s)]

\* Iterations of the loop body completed in the current call.
Iterations == Count(calls, "sleep")

NoObs ==
    [submit |-> "none", poll |-> "none", before |-> "none", poll_failed |-> FALSE,
     cancel |-> "none", error_message |-> "none", results |-> "none",
     results_body |-> None, results_args |-> None, loop_exited |-> FALSE]

\* An operation and its end; size is fetchmany's argument, and rows, none and n hold
\* the value returned: a list of rows (for fetchone and next the one row), None, a count.
Op(name, cur, kind, err) ==
    [name |-> name, cur |-> cur, kind |-> kind, err |-> err,
     size |-> None, rows |-> <<>>, none |-> FALSE, n |-> 0]

\* A Cursor as constructed by Cursor.__init__.  results is _results: None, or the
\* rows the iterator has still to yield.  materialized and delivered are history,
\* not fields of the object: the rows of the last successful execute, and the rows
\* handed out since.
NewCursor ==
    [closed |-> FALSE, description |-> None, results |-> None,
     materialized |-> <<>>, delivered |-> <<>>]

\* ------------------------------------------------------- parameter escaping
\* Python values as escape sees them: a string is the sequence of its characters,
\* a bool or a number carries its repr, a list or tuple its items.
PyStr(t) == [type |-> "str", text |-> t, items |-> <<>>]
PyBool(b) == [type |-> "bool", text |-> IF b THEN <<"True">> ELSE <<"False">>, items |-> <<>>]
PyNum(t) == [type |-> "num", text |-> t, items |-> <<>>]
PyList(xs) == [type |-> "list", text |-> <<>>, items |-> xs]
PyNone == [type |-> "None", text |-> <<>>, items |-> <<>>]
PyTypeError == [type |-> "TypeError", text |-> <<>>, items |-> <<>>]
NotCalled == [type |-> "not called", text |-> <<>>, items |-> <<>>]

\* The characters of a string are one-character strings; these two have names.
Quote == "'"
Backtick == "backtick"

Chars == {"a", Quote, "*"}
SeqsUpTo(S, n) == UNION {[1..k -> S] : k \in 0..n}
Scalars ==
    {PyStr(t) : t \in SeqsUpTo(Chars, MaxStrLen)}
        \cup {PyBool(TRUE), PyBool(FALSE)}
        \cup {PyNum(<<"1">>), PyNum(<<"2", ".", "5">>)}
EscapeInputs == Scalars \cup {PyList(xs) : xs \in SeqsUpTo(Scalars, MaxSeqLen)}

\* str.replace: every single quote becomes two backticks.
RECURSIVE ReplaceQuote(_)
ReplaceQuote(t) ==
    IF t = <<>> THEN <<>>
    ELSE (IF Head(t) = Quote THEN <<Backtick, Backtick>> ELSE <<Head(t)>>) \o ReplaceQuote(Tail(t))

\* The characters of ", ".join(parts) for parts that are all strings.
RECURSIVE JoinText(_)
JoinText(parts) ==
    IF parts = <<>> THEN <<>>
    ELSE IF Len(parts) = 1 THEN parts[1].text
    ELSE parts[1].text \o <<",", " ">> \o JoinText(Tail(parts))

\* ", ".join(parts): a TypeError when an item is not a string (or raised itself).
Join(parts) ==
    IF \E i \in DOMAIN parts : parts[i].type # "str" THEN PyTypeError
    ELSE PyStr(JoinText(parts))

\* escape(value)
RECURSIVE escape(_)
escape(v) ==
    IF v = PyStr(<<"*">>) THEN v
    ELSE IF v.type = "str" THEN PyStr(<<Quote>> \o ReplaceQuote(v.text) \o <<Quote>>)
    ELSE IF v.type = "bool"
         THEN PyStr(IF v = PyBool(TRUE) THEN <<"T", "R", "U", "E">> ELSE <<"F", "A", "L", "S", "E">>)
    ELSE IF v.type = "num" THEN v
    ELSE IF v.type = "list" THEN Join([i \in DOMAIN v.items |-> escape(v.items[i])])
    ELSE PyNone

\* Everything but the argument of escape, as it is after construction.
InitObjects ==
    /\ conn_closed = FALSE
    /\ cursors = <<>>
    /\ op = Op("none", 0, "none", "")
    /\ pc = "idle"
    /\ caller = 0
    /\ args = DefaultArgs
    /\ timeout = 0
    /\ to_print_status = 0
    /\ current_status = "none"
    /\ calls = <<>>
    /\ obs = NoObs
    /\ printed = {}
    /\ outcome = [kind |-> "none", err |-> "", value |-> None]

Init ==
    /\ InitObjects
    /\ value = PyNone
    /\ escaped = NotCalled

\* Mutant of ValidateConfig: the poll interval is not checked.
ValidateConfigNoPollCheck(poll, tmo) ==
    IF tmo < MinQueryTimeoutMin THEN ErrTimeoutArg ELSE ""

\* ------------------------------------------------------------- execute_sync
\* The two argument checks at the head of execute_sync: the error raised, or "".
ValidateConfig(poll, tmo) ==
    IF tmo < MinQueryTimeoutMin THEN ErrTimeoutArg
    ELSE IF poll < MinPollIntervalSec THEN ErrPollArg
    ELSE ""

\* Mutant of SubmitAccepted: any answered status counts as accepted.
SubmitAcceptedAnyStatus(resp) == resp # Fail

\* submit: the job is accepted only when the response's status is SUBMITTED.
SubmitAccepted(resp) == resp = "SUBMITTED"

\* Mutant of StatusAfterPoll: a poll that raised ends the job as FAILED.
StatusAfterPollAbortOnFail(cur, resp) == IF resp = Fail THEN "FAILED" ELSE resp

\* Mutant of StatusAfterPoll: a polled SUBMITTED is refused as a step backwards.
StatusAfterPollNoRegress(cur, resp) ==
    IF resp = Fail \/ resp = "SUBMITTED" THEN cur ELSE resp

\* The try/except around progress(): a poll that raised leaves the status alone.
StatusAfterPoll(cur, resp) == IF resp = Fail THEN cur ELSE resp

\* Mutant of LoopBodyCalls: the poll comes first and the sleep after it.
LoopBodyCallsPollFirst == <<"progress", "sleep">>

\* What one pass of the loop body does first: sleep, then poll.
LoopBodyCalls == <<"sleep", "progress">>

\* Mutant of Toggle: the print toggle is never flipped.
ToggleStuck(t) == t

\* to_print_status ^ 1
Toggle(t) == (t + 1) % 2

\* Mutant of Countdown: the budget loses one unit per pass, whatever the interval.
CountdownByOne(tmo, poll) == tmo - 1

\* timeout - poll_interval_sec
Countdown(tmo, poll) == tmo - poll

\* Mutant of CancelRaises: a cancel request that raised is swallowed like a poll.
CancelRaisesNever(ack) == FALSE

\* cancel(): the request's exception leaves cancel and, uncaught, execute_sync.
CancelRaises(ack) == ack = Fail

\* The countdown check inside the loop body.
BudgetExhausted(tmo, status) == tmo < 0 /\ status \in NonTerminal

\* Mutant of TimedOutStatus: the branch records CANCELLED.
TimedOutStatusCancelled == "CANCELLED"

\* The status the cancel branch forces before it breaks out of the loop.
TimedOutStatus == "TIMEOUT"

\* Mutant of AfterLoop: only FAILED takes the failure path.
AfterLoopOnlyFailed(status) == IF status = "FAILED" THEN "error_message" ELSE "results"

\* The code after the loop: results on SUCCEEDED, the failure path otherwise.
AfterLoop(status) == IF status = "SUCCEEDED" THEN "results" ELSE "error_message"

\* The while condition: another pass, or leave the loop.
LoopHead(status) == IF status \in NonTerminal THEN "loop" ELSE AfterLoop(status)

\* Mutant of ResultsArgs: the default row count instead of the argument.
ResultsArgsDefaultTotal(a) == <<0, DefaultTotalResultRows>>

\* Arguments of the results request: start and total.
ResultsArgs(a) == <<0, a.total_result_rows>>

\* Mutant of OutcomeAfterErrorMessage: a diagnostic request that raised is not caught.
OutcomeAfterErrorMessageUncaught(resp, raise_error) ==
    IF resp = Fail THEN Raised("error_message request raised")
    ELSE IF raise_error THEN Raised(ErrJobFailed) ELSE Returned(None)

\* The end of the failure path: the diagnostic's own failure is caught and printed.
OutcomeAfterErrorMessage(resp, raise_error) ==
    IF raise_error THEN Raised(ErrJobFailed) ELSE Returned(None)

\* Cursor.execute after _stream_query got execute_sync's outcome o: the cursor.
CursorAfterSync(c, o) ==
    IF o.kind = "returned" /\ ~IsNone(o.value) /\ Get(o.value).hasRows
    THEN [c EXCEPT !.results = Some(Get(o.value).rows),
                   !.materialized = Get(o.value).rows, !.delivered = <<>>]
    ELSE c

\* Cursor.execute after _stream_query got execute_sync's outcome o: the error, or "".
ErrorAfterSync(o) ==
    IF o.kind = "raised" THEN o.err
    ELSE IF IsNone(o.value) THEN ErrNoneResponse
    ELSE IF ~Get(o.value).hasRows THEN ErrRowsKey
    ELSE ""

\* execute_sync ends with outcome o, request log log and record seen.  A direct call
\* leaves its locals and its record to be inspected; a calling cursor finishes its
\* execute, and the frame of the call is gone with its record.
Finish(o, log, seen) ==
    /\ outcome' = o
    /\ pc' = "idle"
    /\ IF caller = 0
       THEN /\ op' = [op EXCEPT !.kind = o.kind, !.err = o.err]
            /\ calls' = log
            /\ obs' = seen
            /\ UNCHANGED <<cursors, locals, printed>>
       ELSE /\ op' = [op EXCEPT !.kind = IF ErrorAfterSync(o) = "" THEN "returned" ELSE "raised",
                                !.err = ErrorAfterSync(o)]
            /\ cursors' = [cursors EXCEPT ![caller] = CursorAfterSync(@, o)]
            /\ calls' = <<>>
            /\ obs' = NoObs
            /\ timeout' = 0
            /\ to_print_status' = 0
            /\ current_status' = "none"
            /\ printed' = {}
    /\ UNCHANGED <<conn_closed, caller, args>>

\* Entry of execute_sync for caller c with arguments a: the argument checks.
Enter(c, a) ==
    /\ caller' = c
    /\ args' = a
    /\ timeout' = 0
    /\ to_print_status' = 0
    /\ current_status' = "none"
    /\ calls' = <<>>
    /\ obs' = NoObs
    /\ printed' = {}
    /\ LET e == ValidateConfig(a.poll_interval_sec, a.query_timeout_min) IN
         IF e = ""
         THEN /\ pc' = "submit"
              /\ outcome' = Pending
         ELSE /\ pc' = "idle"
              /\ outcome' = Raised(e)

\* A direct call execute_sync(session, query, poll, tmo, total, raise_error).
ExecuteSync ==
    /\ pc = "idle"
    /\ \E poll \in PollChoices, tmo \in TimeoutChoices, total \in TotalChoices, re \in BOOLEAN :
         /\ Enter(0, Args(poll, tmo, total, re))
         /\ op' = Op("execute_sync", 0, outcome'.kind, outcome'.err)
    /\ UNCHANGED conn
    /\ UNCHANGED esc

\* job_id = submit(session, query), then the loop's initial locals.
Submit ==
    /\ pc = "submit"
    /\ \E resp \in SubmitResponses :
         IF SubmitAccepted(resp)
         THEN /\ calls' = Append(calls, "submit")
              /\ obs' = [obs EXCEPT !.submit = resp]
              /\ timeout' = args.query_timeout_min
              /\ to_print_status' = 1
              /\ current_status' = "SUBMITTED"
              /\ pc' = LoopHead("SUBMITTED")
              /\ UNCHANGED <<conn, op, caller, args, outcome, printed>>
         ELSE Finish(Raised(IF resp = Fail THEN ErrSubmitRequest ELSE ErrNotSubmitted),
                     Append(calls, "submit"), [obs EXCEPT !.submit = resp])
    /\ UNCHANGED esc

\* One pass of the loop body up to the countdown check: sleep, poll, print toggle,
\* countdown; then the cancel branch, the while condition, or the code after the loop.
LoopIteration ==
    /\ pc = "loop"
    /\ \E resp \in PollResponses(caller) :
         LET status == StatusAfterPoll(current_status, resp)
             left == Countdown(timeout, args.poll_interval_sec)
             next == IF BudgetExhausted(left, status) THEN "cancel" ELSE LoopHead(status)
         IN
         /\ calls' = calls \o LoopBodyCalls
         /\ printed' = IF to_print_status = 1 THEN printed \cup {Iterations + 1} ELSE printed
         /\ to_print_status' = Toggle(to_print_status)
         /\ timeout' = left
         /\ current_status' = status
         /\ pc' = next
         /\ obs' = [obs EXCEPT !.poll = resp, !.before = current_status,
                               !.poll_failed = @ \/ resp = Fail,
                               !.loop_exited = next \notin {"loop", "cancel"}]
    /\ UNCHANGED <<conn, op, caller, args, outcome>>
    /\ UNCHANGED esc

\* The cancel branch: cancel(session, job_id), then TIMEOUT and break.
Cancel ==
    /\ pc = "cancel"
    /\ \E ack \in AckResponses :
         IF CancelRaises(ack)
         THEN Finish(Raised(ErrCancelRequest), Append(calls, "cancel"),
                     [obs EXCEPT !.cancel = ack])
         ELSE /\ calls' = Append(calls, "cancel")
              /\ obs' = [obs EXCEPT !.cancel = ack, !.loop_exited = TRUE]
              /\ current_status' = TimedOutStatus
              /\ pc' = AfterLoop(TimedOutStatus)
              /\ UNCHANGED <<conn, op, caller, args, outcome, timeout, to_print_status, printed>>
    /\ UNCHANGED esc

\* return results(session, job_id, 0, total_result_rows)
Results ==
    /\ pc = "results"
    /\ \/ Finish(Raised(ErrResultsRequest), Append(calls, "results"),
                 [obs EXCEPT !.results = Fail, !.results_args = Some(ResultsArgs(args))])
       \/ \E body \in ResultBodies(caller) :
            Finish(Returned(Some(body)), Append(calls, "results"),
                   [obs EXCEPT !.results = "ok", !.results_body = Some(body),
                               !.results_args = Some(ResultsArgs(args))])
    /\ UNCHANGED esc

\* The failure path: one diagnostic request, then raise or return None.
ErrorMessage ==
    /\ pc = "error_message"
    /\ \E resp \in AckResponses :
         Finish(OutcomeAfterErrorMessage(resp, args.raise_error),
                Append(calls, "error_message"), [obs EXCEPT !.error_message = resp])
    /\ UNCHANGED esc

NextSync == ExecuteSync \/ Submit \/ LoopIteration \/ Cancel \/ Results \/ ErrorMessage

SpecSync == Init /\ [][NextSync]_vars

\* Every request returns (with an answer or an exception) and every sleep ends, so a
\* running call always takes its next step.
SpecSyncFair ==
    /\ SpecSync
    /\ WF_vars(Submit)
    /\ WF_vars(LoopIteration)
    /\ WF_vars(Cancel)
    /\ WF_vars(Results)
    /\ WF_vars(ErrorMessage)

\* ------------------------------------------------------ Connection and Cursor
\* The locals and the request log of execute_sync when no call of it is running.
NoCall ==
    /\ caller' = 0
    /\ args' = DefaultArgs
    /\ timeout' = 0
    /\ to_print_status' = 0
    /\ current_status' = "none"
    /\ calls' = <<>>
    /\ obs' = NoObs
    /\ printed' = {}
    /\ outcome' = [kind |-> "none", err |-> "", value |-> None]
    /\ pc' = "idle"

\* Mutant of check_closed: the guard lets every call through.
check_closedNever(closed) == ""

\* check_closed: the guard of the decorated methods.
check_closed(closed) == IF closed THEN ErrClosed ELSE ""

\* Mutant of CloseAll: the error of an already closed cursor is not caught, and the
\* cursors after it are left as they are.
CloseAllUncaught(cs) ==
    [i \in DOMAIN cs |->
        IF \E j \in 1..i : cs[j].closed THEN cs[i] ELSE [cs[i] EXCEPT !.closed = TRUE]]

\* Connection.close: every cursor of the list is closed, closed ones stay closed.
CloseAll(cs) == [i \in DOMAIN cs |-> [cs[i] EXCEPT !.closed = TRUE]]

\* Cursor._stream_query, before the call of execute_sync.
StreamQueryEntry(c) == [c EXCEPT !.description = None]

\* Mutant of check_result: the guard lets every call through.
check_resultNever(results) == ""

\* check_result: the guard of the result-reading methods.
check_result(results) == IF IsNone(results) THEN ErrNotExecuted ELSE ""

\* @check_result above @check_closed: the outer guard is tested first.
ResultGuards(c) ==
    IF check_result(c.results) # "" THEN check_result(c.results) ELSE check_closed(c.closed)

\* itertools.islice(iterator, n) and next(iterator): the first n rows still to come.
Islice(rest, n) == SubSeq(rest, 1, IF n < Len(rest) THEN n ELSE Len(rest))

\* The iterator after it has yielded the rows got.
After(rest, got) == SubSeq(rest, Len(got) + 1, Len(rest))

\* Mutant of FetchSize: the size argument is ignored.
FetchSizeIgnored(size) == ArraySize

\* size or self.arraysize
FetchSize(size) == IF IsNone(size) \/ Get(size) = 0 THEN ArraySize ELSE Get(size)

\* Mutant of RowcountRest: the iterator is consumed and not rebuilt.
RowcountRestConsumed(rest) == <<>>

\* rowcount: list(self._results), then self._results = iter(results).
RowcountRest(rest) == rest

\* Arguments of fetchmany: None, 0, 1 .. MaxFetchSize, and a negative size.
SizeChoices == {None} \cup {Some(k) : k \in -1..MaxFetchSize}

\* The end of an operation on cursor i that does not call execute_sync.
CursorOpEnd(i, o, c) ==
    /\ op' = o
    /\ cursors' = [cursors EXCEPT ![i] = c]
    /\ UNCHANGED <<conn_closed, esc>>
    /\ NoCall

\* Cursor.fetchone()
CursorFetchOne(i) ==
    /\ pc = "idle"
    /\ LET c == cursors[i]
           e == ResultGuards(c)
           got == Islice(Get(c.results), 1)
       IN
       IF e # ""
       THEN CursorOpEnd(i, Op("Cursor.fetchone", i, "raised", e), c)
       ELSE CursorOpEnd(i, [Op("Cursor.fetchone", i, "returned", "")
                               EXCEPT !.rows = got, !.none = (got = <<>>)],
                        [c EXCEPT !.results = Some(After(Get(c.results), got)),
                                  !.delivered = @ \o got])

\* Cursor.fetchmany(size)
CursorFetchMany(i) ==
    /\ pc = "idle"
    /\ \E size \in SizeChoices :
         LET c == cursors[i]
             e == ResultGuards(c)
             got == Islice(Get(c.results), FetchSize(size))
             o == [Op("Cursor.fetchmany", i, "returned", "") EXCEPT !.size = size]
         IN
         IF e # ""
         THEN CursorOpEnd(i, [o EXCEPT !.kind = "raised", !.err = e], c)
         ELSE IF FetchSize(size) < 0
         THEN CursorOpEnd(i, [o EXCEPT !.kind = "raised", !.err = ErrIslice], c)
         ELSE CursorOpEnd(i, [o EXCEPT !.rows = got],
                          [c EXCEPT !.results = Some(After(Get(c.results), got)),
                                    !.delivered = @ \o got])

\* Cursor.fetchall()
CursorFetchAll(i) ==
    /\ pc = "idle"
    /\ LET c == cursors[i]
           e == ResultGuards(c)
           got == Get(c.results)
       IN
       IF e # ""
       THEN CursorOpEnd(i, Op("Cursor.fetchall", i, "raised", e), c)
       ELSE CursorOpEnd(i, [Op("Cursor.fetchall", i, "returned", "") EXCEPT !.rows = got],
                        [c EXCEPT !.results = Some(After(Get(c.results), got)),
                                  !.delivered = @ \o got])

\* Cursor.rowcount
CursorRowcount(i) ==
    /\ pc = "idle"
    /\ LET c == cursors[i]
           e == ResultGuards(c)
       IN
       IF e # ""
       THEN CursorOpEnd(i, Op("Cursor.rowcount", i, "raised", e), c)
       ELSE CursorOpEnd(i, [Op("Cursor.rowcount", i, "returned", "")
                               EXCEPT !.n = Len(Get(c.results))],
                        [c EXCEPT !.results = Some(RowcountRest(Get(c.results)))])

\* Cursor.__iter__()
CursorIter(i) ==
    /\ pc = "idle"
    /\ LET c == cursors[i]
           e == check_closed(c.closed)
       IN
       CursorOpEnd(i, Op("Cursor.__iter__", i, IF e # "" THEN "raised" ELSE "returned", e), c)

\* Cursor.__next__(): guarded by check_closed only, then next(self._results).
CursorNext(i) ==
    /\ pc = "idle"
    /\ LET c == cursors[i]
           e == IF check_closed(c.closed) # "" THEN check_closed(c.closed)
                ELSE IF IsNone(c.results) THEN ErrNotIterator
                ELSE IF Get(c.results) = <<>> THEN ErrStopIteration
                ELSE ""
           got == Islice(Get(c.results), 1)
       IN
       IF e # ""
       THEN CursorOpEnd(i, Op("Cursor.__next__", i, "raised", e), c)
       ELSE CursorOpEnd(i, [Op("Cursor.__next__", i, "returned", "") EXCEPT !.rows = got],
                        [c EXCEPT !.results = Some(After(Get(c.results), got)),
                                  !.delivered = @ \o got])

\* Cursor.executemany(operation, seq_of_parameters)
CursorExecuteMany(i) ==
    /\ pc = "idle"
    /\ LET c == cursors[i]
           e == IF check_closed(c.closed) # "" THEN check_closed(c.closed) ELSE ErrNotSupported
       IN
       CursorOpEnd(i, Op("Cursor.executemany", i, "raised", e), c)

\* Connection.commit()
ConnectionCommit ==
    /\ pc = "idle"
    /\ LET e == check_closed(conn_closed) IN
         op' = Op("Connection.commit", 0, IF e # "" THEN "raised" ELSE "returned", e)
    /\ UNCHANGED <<conn, esc>>
    /\ NoCall

\* Connection.cursor()
ConnectionCursor ==
    /\ pc = "idle"
    /\ IF check_closed(conn_closed) # ""
       THEN /\ op' = Op("Connection.cursor", 0, "raised", ErrClosed)
            /\ UNCHANGED conn
       ELSE /\ Len(cursors) < MaxCursors
            /\ cursors' = Append(cursors, NewCursor)
            /\ op' = Op("Connection.cursor", Len(cursors) + 1, "returned", "")
            /\ UNCHANGED conn_closed
    /\ NoCall
    /\ UNCHANGED esc

\* Connection.close()
ConnectionClose ==
    /\ pc = "idle"
    /\ IF check_closed(conn_closed) # ""
       THEN /\ op' = Op("Connection.close", 0, "raised", ErrClosed)
            /\ UNCHANGED conn
       ELSE /\ conn_closed' = TRUE
            /\ cursors' = CloseAll(cursors)
            /\ op' = Op("Connection.close", 0, "returned", "")
    /\ NoCall
    /\ UNCHANGED esc

\* Cursor.close() on cursor i
CursorClose(i) ==
    /\ pc = "idle"
    /\ IF check_closed(cursors[i].closed) # ""
       THEN /\ op' = Op("Cursor.close", i, "raised", ErrClosed)
            /\ UNCHANGED conn
       ELSE /\ cursors' = [cursors EXCEPT ![i].closed = TRUE]
            /\ op' = Op("Cursor.close", i, "returned", "")
            /\ UNCHANGED conn_closed
    /\ NoCall
    /\ UNCHANGED esc

\* Cursor.execute(operation) on cursor i, up to the entry of execute_sync.
CursorExecute(i) ==
    /\ pc = "idle"
    /\ IF check_closed(cursors[i].closed) # ""
       THEN /\ op' = Op("Cursor.execute", i, "raised", ErrClosed)
            /\ UNCHANGED conn
            /\ NoCall
       ELSE /\ cursors' = [cursors EXCEPT ![i] = StreamQueryEntry(@)]
            /\ Enter(i, DefaultArgs)
            /\ op' = Op("Cursor.execute", i, outcome'.kind, outcome'.err)
            /\ UNCHANGED conn_closed
    /\ UNCHANGED esc

\* Connection.execute(operation): a new cursor, and execute on it.
ConnectionExecute ==
    /\ pc = "idle"
    /\ IF check_closed(conn_closed) # ""
       THEN /\ op' = Op("Connection.execute", 0, "raised", ErrClosed)
            /\ UNCHANGED conn
            /\ NoCall
       ELSE /\ Len(cursors) < MaxCursors
            /\ cursors' = Append(cursors, StreamQueryEntry(NewCursor))
            /\ Enter(Len(cursors) + 1, DefaultArgs)
            /\ op' = Op("Connection.execute", Len(cursors) + 1, outcome'.kind, outcome'.err)
            /\ UNCHANGED conn_closed
    /\ UNCHANGED esc

Next ==
    \/ ConnectionCursor
    \/ ConnectionClose
    \/ ConnectionExecute
    \/ \E i \in DOMAIN cursors : CursorClose(i)
    \/ \E i \in DOMAIN cursors : CursorExecute(i)
    \/ ConnectionCommit
    \/ \E i \in DOMAIN cursors : CursorExecuteMany(i)
    \/ \E i \in DOMAIN cursors : CursorFetchOne(i)
    \/ \E i \in DOMAIN cursors : CursorFetchMany(i)
    \/ \E i \in DOMAIN cursors : CursorFetchAll(i)
    \/ \E i \in DOMAIN cursors : CursorRowcount(i)
    \/ \E i \in DOMAIN cursors : CursorIter(i)
    \/ \E i \in DOMAIN cursors : CursorNext(i)
    \/ Submit
    \/ LoopIteration
    \/ Cancel
    \/ Results
    \/ ErrorMessage

Spec == Init /\ [][Next]_vars

\* ------------------------------------------------------------------- escape
\* escape alone: the argument is any of EscapeInputs, and the one step applies it.
InitEscape ==
    /\ InitObjects
    /\ value \in EscapeInputs
    /\ escaped = NotCalled

Escape ==
    /\ escaped = NotCalled
    /\ escaped' = escape(value)
    /\ UNCHANGED <<conn, op, pc, caller, args, locals, calls, obs, printed, outcome, value>>

NextEscape == Escape

SpecEscape == InitEscape /\ [][NextEscape]_vars

\* =================================================================== claims
\* A call of execute_sync is running or has ended / has ended.
InCall == outcome.kind # "none"
Ended == outcome.kind \in {"returned", "raised"}
ValidArgs == args.query_timeout_min >= 2 /\ args.poll_interval_sec >= 45

\* C1: a call of execute_sync with query_timeout_min < 2 or poll_interval_sec < 45
\* fails with the configuration error and issues no request at all: no submit,
\* poll, results, cancel or error-message request (and no sleep) in that call.
C1_InvalidConfigNoNetwork ==
    (InCall /\ (args.query_timeout_min < 2 \/ args.poll_interval_sec < 45)) =>
        /\ pc = "idle"
        /\ outcome.kind = "raised"
        /\ outcome.err \in {ErrTimeoutArg, ErrPollArg}
        /\ calls = <<>>
        /\ obs = NoObs

\* A call rejected for its poll interval alone.
C1_Witness ==
    /\ op.name = "execute_sync"
    /\ args.poll_interval_sec = 44
    /\ args.query_timeout_min = 100
    /\ outcome = Raised(ErrPollArg)
    /\ calls = <<>>

\* C2: in a call that passes validation, submit is issued exactly once and is the
\* first request; when the submit request fails or answers a status other than
\* SUBMITTED, the call fails at once and nothing follows: no sleep, poll, results,
\* cancel or error-message.
C2_SubmitOnceFirst ==
    (InCall /\ ValidArgs) =>
        /\ pc = "submit" => calls = <<>>
        /\ pc # "submit" => (calls # <<>> /\ calls[1] = "submit" /\ Count(calls, "submit") = 1)
        /\ (pc # "submit" /\ obs.submit # "SUBMITTED") =>
              /\ pc = "idle"
              /\ outcome.kind = "raised"
              /\ outcome.err \in {ErrSubmitRequest, ErrNotSubmitted}
              /\ calls = <<"submit">>

\* A submit answered with the status RUNNING: the call has failed after that one request.
C2_Witness ==
    /\ obs.submit = "RUNNING"
    /\ outcome = Raised(ErrNotSubmitted)
    /\ calls = <<"submit">>
    /\ pc = "idle"

\* C3: a poll that raises does not abort the loop and does not change the status:
\* the status after it is the status before it and the loop goes on to its next
\* pass (or to the countdown's cancel); and once a poll answers SUCCEEDED, however
\* many polls failed before, the call fetches the results and returns that body.
C3_FailedPollKeepsStatus ==
    [][ /\ (pc = "loop" /\ obs'.poll = Fail) =>
              /\ current_status' = current_status
              /\ current_status' \in NonTerminal
              /\ pc' = IF timeout' < 0 THEN "cancel" ELSE "loop"
              /\ outcome' = outcome
        /\ (obs'.poll = "SUCCEEDED" /\ obs'.poll_failed) =>
              \/ pc' = "results"
              \/ /\ pc' = "idle"
                 /\ obs'.results = "ok"
                 /\ outcome' = Returned(obs'.results_body)
              \/ /\ pc' = "idle"
                 /\ obs'.results = Fail
                 /\ outcome' = Raised(ErrResultsRequest)
      ]_vars

\* A call that returned the rows although a poll had failed on the way.
C3_Witness ==
    /\ pc = "idle"
    /\ obs.poll_failed
    /\ obs.poll = "SUCCEEDED"
    /\ Count(calls, "progress") >= 2
    /\ outcome = Returned(Some(Body(TRUE, RowsXY)))

\* The call ended after a submit that was accepted and polls that all answered a
\* status of NonTerminal (none raised): the loop can only have left by the countdown.
NeverTerminalRun ==
    /\ Ended
    /\ obs.submit = "SUBMITTED"
    /\ ~obs.poll_failed
    /\ obs.poll \in NonTerminal

TimeoutConsequences ==
    /\ current_status = "TIMEOUT"
    /\ obs.loop_exited
    /\ Count(calls, "cancel") = 1
    /\ Count(calls, "results") = 0
    /\ args.raise_error => outcome = Raised(ErrJobFailed)

\* C4 as stated: in every run where submit succeeds and every poll answers a status
\* in {RUNNING, QUEUED, UNKNOWN, SUBMITTED}, the loop exits in state TIMEOUT, exactly
\* one cancel is issued, no results call is made, and with raise_error the call fails
\* with the job-failed error.
C4_TimeoutScenarioAsStated == NeverTerminalRun => TimeoutConsequences

\* C4 (amended): the same, for the runs in which the cancel request itself succeeds;
\* a cancel request that raises ends the call with its own error instead.
C4_TimeoutScenario ==
    /\ (NeverTerminalRun /\ obs.cancel = "ok") => TimeoutConsequences
    /\ NeverTerminalRun => (Count(calls, "cancel") = 1 /\ Count(calls, "results") = 0)

\* A job that stayed RUNNING until the countdown went negative, called with raise_error.
C4_Witness ==
    /\ NeverTerminalRun
    /\ obs.cancel = "ok"
    /\ obs.poll = "RUNNING"
    /\ obs.before = "RUNNING"
    /\ timeout < 0
    /\ args.raise_error
    /\ current_status = "TIMEOUT"
    /\ outcome = Raised(ErrJobFailed)

\* C5: when the loop ends in a state other than SUCCEEDED, no results call is ever
\* issued and the outcome depends on raise_error alone: the job-failed error when it
\* is true, None when it is false.
C5_NonSuccessOutcome ==
    (obs.loop_exited /\ current_status # "SUCCEEDED") =>
        /\ Count(calls, "results") = 0
        /\ pc \in {"error_message", "idle"}
        /\ pc = "idle" =>
              /\ args.raise_error => outcome = Raised(ErrJobFailed)
              /\ ~args.raise_error => outcome = Returned(None)

\* An unrecognized status ended the loop and the call returned None.
C5_Witness ==
    /\ obs.loop_exited
    /\ current_status = "BOGUS"
    /\ ~args.raise_error
    /\ pc = "idle"
    /\ outcome = Returned(None)

\* C6: the diagnostic error-message request is issued at most once, as the last
\* request, and the outcome is the same whether it answered or raised: the
\* job-failed error with raise_error, None without.
C6_DiagnosticNeverChangesOutcome ==
    /\ Count(calls, "error_message") <= 1
    /\ \A r \in {"ok", Fail} :
         obs.error_message = r =>
            /\ pc = "idle"
            /\ Count(calls, "error_message") = 1
            /\ Last(calls) = "error_message"
            /\ outcome.kind = IF args.raise_error THEN "raised" ELSE "returned"
            /\ outcome.err = IF args.raise_error THEN ErrJobFailed ELSE ""
            /\ IsNone(outcome.value)

\* The diagnostic request raised and the call still returned None.
C6_Witness ==
    /\ obs.error_message = Fail
    /\ ~args.raise_error
    /\ current_status = "FAILED"
    /\ outcome = Returned(None)

\* C7: results is requested at most once, only after a poll answered SUCCEEDED, with
\* start 0 and total total_result_rows; it is the last request of the run and the
\* call returns exactly the body it answered.
C7_ResultsOnceLast ==
    /\ Count(calls, "results") <= 1
    /\ Count(calls, "results") = 1 =>
          /\ obs.poll = "SUCCEEDED"
          /\ current_status = "SUCCEEDED"
          /\ obs.results_args = Some(<<0, args.total_result_rows>>)
          /\ Last(calls) = "results"
          /\ pc = "idle"
          /\ Count(calls, "cancel") = 0
          /\ Count(calls, "error_message") = 0
          /\ obs.results = "ok" => outcome = Returned(obs.results_body)
    /\ (Ended /\ outcome.kind = "returned" /\ ~IsNone(outcome.value)) =>
          Count(calls, "results") = 1

\* A call with total_result_rows = 1 that returned the body of its results request.
C7_Witness ==
    /\ args.total_result_rows = 1
    /\ obs.results_args = Some(<<0, 1>>)
    /\ Last(calls) = "results"
    /\ outcome = Returned(Some(Body(TRUE, RowsXY)))

\* C8: after a successful submit every poll is immediately preceded by one sleep, so
\* sleeps and polls are equal in number; the countdown's cancel comes only after a
\* completed sleep+poll pass; and the loop body runs at least once for every
\* submitted job.
C8_SleepBeforeEveryPoll ==
    /\ \A i \in DOMAIN calls :
          /\ calls[i] = "progress" => (i > 2 /\ calls[i - 1] = "sleep")
          /\ calls[i] = "sleep" => (i < Len(calls) /\ calls[i + 1] = "progress")
          /\ calls[i] = "cancel" => (i > 3 /\ calls[i - 1] = "progress" /\ calls[i - 2] = "sleep")
    /\ Count(calls, "sleep") = Count(calls, "progress")
    /\ pc = "cancel" => Count(calls, "progress") >= 1
    /\ (obs.submit = "SUBMITTED" /\ pc # "loop") => Count(calls, "sleep") >= 1

\* The countdown cancelled a job after exactly one sleep and one poll.
C8_Witness == calls = <<"submit", "sleep", "progress", "cancel">>

\* C9: a poll that answers replaces the status by the answer, whatever the status
\* was; the loop stops at the first answer outside {RUNNING, QUEUED, UNKNOWN,
\* SUBMITTED}: from then on no sleep, poll or cancel is added, and every such answer
\* but SUCCEEDED goes to the failure path.
C9_PollReplacesStatus ==
    [][ /\ (pc = "loop" /\ obs'.poll # Fail) =>
              /\ current_status' = obs'.poll
              /\ obs'.poll \notin NonTerminal =>
                    /\ obs'.loop_exited
                    /\ pc' = IF obs'.poll = "SUCCEEDED" THEN "results" ELSE "error_message"
        /\ (pc # "idle" /\ obs.poll \notin NonTerminal \cup {Fail, "none"}) =>
              /\ pc \in {"results", "error_message"}
              /\ pc = "results" <=> obs.poll = "SUCCEEDED"
              /\ current_status' = current_status
              /\ \A x \in {"sleep", "progress", "cancel"} : Count(calls', x) = Count(calls, x)
              /\ Count(calls', "cancel") = 0
      ]_vars

\* A job polled as RUNNING and then as SUBMITTED again: the status went back.
C9_Witness ==
    /\ obs.before = "RUNNING"
    /\ obs.poll = "SUBMITTED"
    /\ current_status = "SUBMITTED"
    /\ pc = "loop"

\* Cursor i has just finished an execute that materialized at least one row.
ExecutedWithRows(i) ==
    /\ pc = "idle"
    /\ op.name \in {"Cursor.execute", "Connection.execute"}
    /\ op.cur = i
    /\ op.kind = "returned"
    /\ ~IsNone(cursors[i].results)
    /\ Get(cursors[i].results) # <<>>

\* C10: after an execute that succeeded with a non-empty result set the cursor has a
\* description derived from the first row, one (name, type, null_ok) entry per
\* column, as long as every row: STRING and nullable for a string or null value,
\* NUMBER and not nullable for a number.
C10_DescriptionFromFirstRow ==
    \A i \in DOMAIN cursors :
        ExecutedWithRows(i) =>
            LET rows == Get(cursors[i].results)
                d == cursors[i].description
            IN
            /\ ~IsNone(d)
            /\ \A k \in DOMAIN rows : Len(Get(d)) = Len(rows[k])
            /\ \A j \in DOMAIN Get(d) :
                  /\ Get(d)[j].type_code = get_type(rows[1][j])
                  /\ Get(d)[j].null_ok = (get_type(rows[1][j]) = TypeSTRING)

\* C13: the countdown's cancel is issued only after the budget in minutes has
\* elapsed: when the cancel branch is taken, the time slept in the loop, passes
\* times poll_interval_sec seconds, is at least query_timeout_min times 60 seconds.
C13_TimeoutOnlyAfterBudget ==
    (pc = "cancel" \/ Count(calls, "cancel") >= 1) =>
        Iterations * args.poll_interval_sec >= args.query_timeout_min * 60

\* C15: the countdown starts at query_timeout_min and loses poll_interval_sec on
\* every pass, failed polls included, so the loop never runs more than
\* query_timeout_min \div poll_interval_sec + 1 passes; and every call that has
\* started ends, returning or raising.
C15_LoopTerminates ==
    /\ [](obs.submit = "SUBMITTED" =>
            /\ timeout = args.query_timeout_min - Iterations * args.poll_interval_sec
            /\ Iterations <= (args.query_timeout_min \div args.poll_interval_sec) + 1
            /\ pc = "idle" => Ended)
    /\ (pc # "idle") ~> (pc = "idle" /\ Ended)

\* A call that ran the full number of passes, one of them with a failed poll.
C15_Witness ==
    /\ obs.submit = "SUBMITTED"
    /\ obs.poll_failed
    /\ Iterations >= 3
    /\ Iterations = (args.query_timeout_min \div args.poll_interval_sec) + 1
    /\ Ended

\* C16: the progress line is printed on the odd passes 1, 3, 5, ... and on no even
\* pass, whether the pass's poll answered or raised: after k passes there are
\* exactly ceil(k/2) lines.
C16_ProgressOnOddPasses ==
    obs.submit = "SUBMITTED" =>
        /\ printed = {i \in 1..Iterations : i % 2 = 1}
        /\ Cardinality(printed) = (Iterations + 1) \div 2

\* Three passes, one with a failed poll: lines on passes 1 and 3 only.
C16_Witness ==
    /\ Iterations = 3
    /\ obs.poll_failed
    /\ printed = {1, 3}

\* C18: a cancel request that raises is not retried and its error leaves
\* execute_sync whatever raise_error is; the status is never set to TIMEOUT in that
\* run and neither error-message nor results is requested.
C18_CancelFailurePropagates ==
    obs.cancel = Fail =>
        /\ pc = "idle"
        /\ outcome = Raised(ErrCancelRequest)
        /\ current_status \in NonTerminal
        /\ ~obs.loop_exited
        /\ Count(calls, "cancel") = 1
        /\ Last(calls) = "cancel"
        /\ Count(calls, "error_message") = 0
        /\ Count(calls, "results") = 0

\* The cancel request raised in a call made with raise_error = false.
C18_Witness ==
    /\ obs.cancel = Fail
    /\ ~args.raise_error
    /\ outcome.kind = "raised"
    /\ current_status = "RUNNING"

\* The argument is a list or tuple of strings, booleans and numbers.
ScalarSequence ==
    /\ value.type = "list"
    /\ \A i \in DOMAIN value.items : value.items[i].type \in {"str", "bool", "num"}

\* C14: escape of a list or tuple of strings, booleans and numbers returns the
\* escapes of its items joined with ", ": strings quoted, booleans as TRUE / FALSE,
\* numbers unquoted, "*" verbatim.
C14_EscapeSequenceJoined ==
    (escaped # NotCalled /\ ScalarSequence) =>
        escaped = PyStr(JoinText([i \in DOMAIN value.items |-> escape(value.items[i])]))

\* ---------------------------------------------------------- the cursor layer
CursorOps ==
    {"Cursor.execute", "Cursor.executemany", "Cursor.fetchone", "Cursor.fetchmany",
     "Cursor.fetchall", "Cursor.rowcount", "Cursor.close", "Cursor.__iter__",
     "Cursor.__next__"}
ConnectionOps ==
    {"Connection.cursor", "Connection.execute", "Connection.commit", "Connection.close"}

\* The step is a call that failed at once: an error, no request, the objects as they were.
Rejected ==
    /\ op'.kind = "raised"
    /\ pc' = "idle"
    /\ calls' = <<>>
    /\ UNCHANGED conn

\* C11: once a cursor or a connection is closed, every guarded operation on it
\* (Cursor: execute, executemany, fetchone, fetchmany, fetchall, rowcount, close,
\* iteration; Connection: cursor, execute, commit, close) fails with an error, makes
\* no request and leaves the closed flags, results, descriptions and the cursor list
\* unchanged; and closed is never reset to false.
C11_ClosedObjectRejects ==
    [][/\ (/\ pc = "idle"
            /\ op'.name \in CursorOps
            /\ op'.cur \in DOMAIN cursors
            /\ cursors[op'.cur].closed) => Rejected
       /\ (pc = "idle" /\ op'.name \in ConnectionOps /\ conn_closed) => Rejected
       /\ conn_closed => conn_closed'
       /\ \A i \in DOMAIN cursors :
            cursors[i].closed => (i \in DOMAIN cursors' /\ cursors'[i].closed)]_vars

\* fetchall on a cursor that was executed and then closed has raised.
C11_Witness ==
    /\ pc = "idle"
    /\ op.name = "Cursor.fetchall"
    /\ op.kind = "raised"
    /\ op.err = ErrClosed
    /\ cursors[op.cur].closed
    /\ ~IsNone(cursors[op.cur].results)
    /\ Get(cursors[op.cur].results) # <<>>

FetchOps == {"Cursor.fetchone", "Cursor.fetchmany", "Cursor.fetchall"}

\* The rows of the last successful execute that no call has handed out yet.
Remaining(c) == SubSeq(c.materialized, Len(c.delivered) + 1, Len(c.materialized))

\* C12: after a successful execute that materialized rows r1..rn, any interleaving
\* of fetchone, fetchmany(k) and fetchall delivers the rows in their order, each row
\* once, with no request: what was returned so far is always a prefix of r1..rn (and
\* the iterator holds the rest), fetchmany(k) for k >= 1 returns the next
\* min(k, remaining) rows, fetchall returns all remaining rows, and once all rows are
\* delivered fetchone returns None and fetchmany / fetchall return an empty list.
C12_FetchDeliversInOrder ==
    /\ [](\A i \in DOMAIN cursors :
            ~IsNone(cursors[i].results) =>
                cursors[i].materialized = cursors[i].delivered \o Get(cursors[i].results))
    /\ [][\A i \in DOMAIN cursors :
            (pc = "idle" /\ op'.name \in FetchOps /\ op'.cur = i /\ op'.kind = "returned") =>
                LET rest == Remaining(cursors[i])
                    k == op'.size
                IN
                /\ pc' = "idle"
                /\ calls' = <<>>
                /\ cursors'[i].delivered = cursors[i].delivered \o op'.rows
                /\ op'.name = "Cursor.fetchone" =>
                       IF rest = <<>>
                       THEN op'.none /\ op'.rows = <<>>
                       ELSE ~op'.none /\ op'.rows = <<rest[1]>>
                /\ (op'.name = "Cursor.fetchmany" /\ ~IsNone(k) /\ Get(k) >= 1) =>
                       op'.rows = SubSeq(rest, 1, IF Get(k) < Len(rest) THEN Get(k) ELSE Len(rest))
                /\ (op'.name = "Cursor.fetchmany" /\ rest = <<>>) => op'.rows = <<>>
                /\ op'.name = "Cursor.fetchall" => op'.rows = rest]_vars

\* fetchmany(2) has returned both rows of a result set in one call.
C12_Witness ==
    /\ pc = "idle"
    /\ op.name = "Cursor.fetchmany"
    /\ op.kind = "returned"
    /\ op.size = Some(2)
    /\ op.rows = RowsXY
    /\ cursors[op.cur].delivered = RowsXY
    /\ cursors[op.cur].results = Some(<<>>)

ReadingOps ==
    {"Cursor.fetchone", "Cursor.fetchmany", "Cursor.fetchall", "Cursor.rowcount",
     "Cursor.__next__"}

\* C17: on an open cursor on which no execute has succeeded yet, each of fetchone,
\* fetchmany, fetchall, rowcount and next fails with the error "Called before
\* execute".
C17_RequireExecutedUniform ==
    \A i \in DOMAIN cursors :
        (/\ pc = "idle"
         /\ op.name \in ReadingOps
         /\ op.cur = i
         /\ ~cursors[i].closed
         /\ IsNone(cursors[i].results)) =>
            /\ op.kind = "raised"
            /\ op.err = ErrNotExecuted

\* C19: a closed Connection has only closed cursors, those the caller had closed one
\* by one included, and no cursor is created from it.
C19_ClosedConnectionClosedCursors ==
    /\ [](conn_closed => \A i \in DOMAIN cursors : cursors[i].closed)
    /\ [][conn_closed => (conn_closed' /\ Len(cursors') = Len(cursors))]_vars

\* cursor() on a closed connection with two cursors has raised.
C19_Witness ==
    /\ conn_closed
    /\ pc = "idle"
    /\ op.name = "Connection.cursor"
    /\ op.kind = "raised"
    /\ Len(cursors) >= 2
    /\ \A i \in DOMAIN cursors : cursors[i].closed

\* C20: rowcount on an executed, open cursor returns the number of rows not yet
\* delivered, not the size of the result set, and leaves the remaining rows as they
\* are, so that later fetches return what they would have returned without it.
C20_RowcountCountsRemaining ==
    [][\A i \in DOMAIN cursors :
        (pc = "idle" /\ op'.name = "Cursor.rowcount" /\ op'.cur = i) =>
            /\ (~cursors[i].closed /\ ~IsNone(cursors[i].results)) => op'.kind = "returned"
            /\ op'.kind = "returned" =>
                   /\ op'.n = Len(cursors[i].materialized) - Len(cursors[i].delivered)
                   /\ op'.n = Len(Get(cursors[i].results))
                   /\ cursors' = cursors
                   /\ pc' = "idle"
                   /\ calls' = <<>>]_vars

\* rowcount has returned 1 on a cursor with two rows, one of them delivered.
C20_Witness ==
    /\ pc = "idle"
    /\ op.name = "Cursor.rowcount"
    /\ op.kind = "returned"
    /\ op.n = 1
    /\ Len(cursors[op.cur].materialized) = 2
    /\ Len(cursors[op.cur].delivered) = 1
    /\ Get(cursors[op.cur].results) = <<RowsXY[2]>>

====
